---------------------------- MODULE Spec2Model ----------------------------
(***************************************************************************)
(* Model of the buffer cache (kernel/bio.c) and of the physical page       *)
(* allocator (kernel/kalloc.c) of the xv6 teaching kernel.                 *)
(*                                                                         *)
(* Kernel threads are processes with a program counter; every spinlock     *)
(* acquire is a step of its own, so a thread can be seen holding one lock  *)
(* while it waits for the next.  The statements between an acquire and the *)
(* matching release form one step.                                         *)
(*                                                                         *)
(* The bucket lists are the doubly-linked lists of the source: next and    *)
(* prev are pointer maps over the buffers and the NUM_BUCKET list heads.   *)
(* The field lru_timestamp is written but never read by bio.c, and is left *)
(* out of the state.                                                       *)
(***************************************************************************)
EXTENDS Integers, Sequences, FiniteSets, TLC

\* ------------------------------------------------------------------------
\* Sizes
\* ------------------------------------------------------------------------

\* #define NUM_BUCKET 13
NUM_BUCKET == 13

\* NBUF of param.h, scaled down: the number of buffers of the cache.
NBUF == 2

\* Number of kernel threads that use the buffer cache concurrently.
NTHREAD == 2

\* A buffer carries at most this many outstanding pins (bpin without bunpin).
MaxPin == 1

\* The pages from KERNBASE up to end, which hold the kernel image and are
\* never handed to the allocator, and the pages from end up to PHYSTOP,
\* which kinit seeds the free list with; both scaled down.
NKPAGE == 1
NMPAGE == 2

\* NUM_OF_PAGE, and PA2IDX(PGROUNDUP(end)), the index of the first page
\* that kinit frees.
NPAGE == NKPAGE + NMPAGE
EndIdx == NKPAGE

\* Callers hold at most this many references to one page.
MaxRef == 2

\* The sequential LRU scenario asks for blocks 1 .. MaxLruBlock of device 1.
MaxLruBlock == 14

\* The (dev, blockno) keys the callers ask for: block 0 of two devices
\* (both in bucket 0) and block 1 of the first (bucket 1).
Keys == { <<1, 0>>, <<2, 0>>, <<1, 1>> }

Bufs == 0 .. (NBUF - 1)
Buckets == 0 .. (NUM_BUCKET - 1)
Threads == 1 .. NTHREAD

\* A null pointer / no thread / no bucket.
NoBuf == -1
NoThread == 0

\* Page indices (PA2IDX of a page address), and those freerange seeds.
Pages == 0 .. (NPAGE - 1)
Managed == EndIdx .. (NPAGE - 1)

\* A null struct run pointer, and the junk memset leaves in a page:
\* memset(pa, 1, PGSIZE) in kfree and memset(r, 5, PGSIZE) in kalloc.
NoPage == -1
Junk1 == -2
Junk5 == -3

\* The list head of bucket i, as a node of the pointer maps: &bcache.head[i].
HeadOf(i) == NBUF + i
Nodes == 0 .. (NBUF + NUM_BUCKET - 1)

VARIABLES
  \* struct buf fields (bcache.buf[] and bcache.head[])
  dev, blockno, valid, refcnt, next, prev,
  \* b->lock, the sleep lock of each buffer: locked flag and owner pid
  slk_locked, slk_pid,
  \* spinlocks: bcache.lock and bcache.hash_lock[], by owner
  lock, hash_lock,
  \* per thread: program counter, arguments and locals of the running call
  pc, a_dev, a_blockno, l_b, l_i, l_hash,
  \* the message of panic(), "" while the kernel runs
  panicked,
  \* history: which path of bget handed the thread its buffer
  path,
  \* history: disk reads done for a buffer since its key was last set
  nread,
  \* history: outstanding pins of each buffer (bpin calls not yet undone)
  pins,
  \* history: the block numbers asked for by the sequential LRU scenario
  hist,
  \* kmem: freelist head, ref_counter[], ref_lock[] and lock (by owner)
  freelist, ref_counter, ref_lock, kmem_lock,
  \* the first word of each managed page: struct run's next, or junk
  mem,
  \* per allocator thread: program counter and the local r (the page)
  kpc, k_r,
  \* history: references to each page that callers hold
  krefs,
  \* history: pushes of a page onto the free list since it was last popped
  npush,
  \* history: kfree calls completed on a page since it was last allocated,
  \* counted up to MaxRef
  nfree,
  \* history: the last kalloc call of the thread returned 0
  kfailed

bvars == << dev, blockno, valid, refcnt, next, prev, slk_locked, slk_pid,
            lock, hash_lock, pc, a_dev, a_blockno, l_b, l_i, l_hash,
            panicked, path, nread, pins >>

kvars == << freelist, ref_counter, ref_lock, kmem_lock, mem, kpc, k_r,
            krefs, npush, nfree, kfailed >>

\* ------------------------------------------------------------------------
\* Pure helpers
\* ------------------------------------------------------------------------

\* uint hash_val(uint key) { return key % NUM_BUCKET; }
hash_val(key) == key % NUM_BUCKET

\* b->next = head.next; b->prev = &head; head.next->prev = b; head.next = b;
\* on the pair of pointer maps [n, p].
LinkAtHead(L, b, h) ==
  LET n1 == [L.n EXCEPT ![b] = L.n[h]]
      p1 == [L.p EXCEPT ![b] = h]
      p2 == [p1 EXCEPT ![n1[h]] = b]
      n2 == [n1 EXCEPT ![h] = b]
  IN  [n |-> n2, p |-> p2]

\* Faulty variant of Unlink: the buffer stays linked where it was.
UnlinkNot(L, b) == L

\* b->prev->next = b->next; b->next->prev = b->prev;
Unlink(L, b) ==
  LET n1 == [L.n EXCEPT ![L.p[b]] = L.n[b]]
      p1 == [L.p EXCEPT ![L.n[b]] = L.p[b]]
  IN  [n |-> n1, p |-> p1]

\* for(b = head.next; b != &head; b = b->next)
\*   if(b->dev == dev && b->blockno == blockno) -> b;   NoBuf when none
RECURSIVE ScanKeyFrom(_, _, _, _)
ScanKeyFrom(b, h, d, bn) ==
  IF b = h THEN NoBuf
  ELSE IF dev[b] = d /\ blockno[b] = bn THEN b
  ELSE ScanKeyFrom(next[b], h, d, bn)

ScanKey(i, d, bn) == ScanKeyFrom(next[HeadOf(i)], HeadOf(i), d, bn)

\* Faulty variant of ScanFree: the bucket is searched from the head, so
\* the most recently used free buffer is taken.
RECURSIVE ScanFreeFwdFrom(_, _)
ScanFreeFwdFrom(b, h) ==
  IF b = h THEN NoBuf
  ELSE IF refcnt[b] = 0 THEN b
  ELSE ScanFreeFwdFrom(next[b], h)

ScanFreeMRU(i) == ScanFreeFwdFrom(next[HeadOf(i)], HeadOf(i))

\* Faulty variant of ScanFreeFrom: the tail buffer is taken whatever its
\* refcnt.
ScanAnyFrom(b, h) == IF b = h THEN NoBuf ELSE b

\* for(b = head.prev; b != &head; b = b->prev) if(b->refcnt == 0) -> b
RECURSIVE ScanFreeFrom(_, _)
ScanFreeFrom(b, h) ==
  IF b = h THEN NoBuf
  ELSE IF refcnt[b] = 0 THEN b
  ELSE ScanFreeFrom(prev[b], h)

ScanFree(i) == ScanFreeFrom(prev[HeadOf(i)], HeadOf(i))

\* Faulty variant of NextDonor: the target bucket is not skipped.
NextDonorNoSkip(i, hash_idx) == IF i >= NUM_BUCKET THEN NUM_BUCKET ELSE i

\* The loop header of the donor scan, from index i on:
\* for(; i < NUM_BUCKET; ++i){ if(i == hash_idx) continue; ...
\* gives the next bucket to visit, NUM_BUCKET when the loop is over.
RECURSIVE NextDonor(_, _)
NextDonor(i, hash_idx) ==
  IF i >= NUM_BUCKET THEN NUM_BUCKET
  ELSE IF i = hash_idx THEN NextDonor(i + 1, hash_idx)
  ELSE i

\* Faulty variant of holdingsleep: the owner of the lock is not compared
\* with the caller.
holdingsleepAnyOwner(b, t) == slk_locked[b]

\* holdingsleep(&b->lock) for thread t
holdingsleep(b, t) == slk_locked[b] /\ slk_pid[b] = t

\* ------------------------------------------------------------------------
\* binit
\* ------------------------------------------------------------------------

\* The heads after the first loop of binit: every list empty.
EmptyLists ==
  [n |-> [x \in Nodes |-> x], p |-> [x \in Nodes |-> x]]

\* The second loop of binit: buffer b goes to the head of bucket b % NUM_BUCKET.
RECURSIVE BinitLists(_)
BinitLists(k) ==
  IF k = 0 THEN EmptyLists
  ELSE LinkAtHead(BinitLists(k - 1), k - 1, HeadOf((k - 1) % NUM_BUCKET))

BInit ==
  /\ dev = [b \in Bufs |-> 0]
  /\ blockno = [b \in Bufs |-> 0]
  /\ valid = [b \in Bufs |-> 0]
  /\ refcnt = [b \in Bufs |-> 0]
  /\ next = BinitLists(NBUF).n
  /\ prev = BinitLists(NBUF).p
  /\ slk_locked = [b \in Bufs |-> FALSE]
  /\ slk_pid = [b \in Bufs |-> NoThread]
  /\ lock = NoThread
  /\ hash_lock = [i \in Buckets |-> NoThread]
  /\ pc = [t \in Threads |-> "idle"]
  /\ a_dev = [t \in Threads |-> 0]
  /\ a_blockno = [t \in Threads |-> 0]
  /\ l_b = [t \in Threads |-> NoBuf]
  /\ l_i = [t \in Threads |-> 0]
  /\ l_hash = [t \in Threads |-> 0]
  /\ panicked = ""
  /\ path = [t \in Threads |-> "none"]
  /\ nread = [b \in Bufs |-> 0]
  /\ pins = [b \in Bufs |-> 0]

\* ------------------------------------------------------------------------
\* bget / bread
\* ------------------------------------------------------------------------

Running == panicked = ""

\* bread(dev, blockno) -> bget: hash_idx = hash_val(blockno);
\* acquire(&bcache.hash_lock[hash_idx]);
BgetLockBucketCore(t, d, bn) ==
  /\ Running /\ pc[t] = "idle"
  /\ hash_lock[hash_val(bn)] = NoThread
  /\ hash_lock' = [hash_lock EXCEPT ![hash_val(bn)] = t]
  /\ a_dev' = [a_dev EXCEPT ![t] = d]
  /\ a_blockno' = [a_blockno EXCEPT ![t] = bn]
  /\ l_hash' = [l_hash EXCEPT ![t] = hash_val(bn)]
  /\ pc' = [pc EXCEPT ![t] = "scan"]
  /\ UNCHANGED << dev, blockno, valid, refcnt, next, prev, slk_locked,
                  slk_pid, lock, l_b, l_i, panicked, path, nread, pins >>
  /\ UNCHANGED kvars

\* bread(dev, blockno) called by one of the concurrent threads.
BgetLockBucket(t, d, bn) ==
  /\ BgetLockBucketCore(t, d, bn)
  /\ UNCHANGED hist

\* Is the block already cached?  The first loop of bget, with the bucket
\* lock held: on a hit refcnt++ and release; on a miss release.
BgetScan(t) ==
  /\ Running /\ pc[t] = "scan"
  /\ LET b == ScanKey(l_hash[t], a_dev[t], a_blockno[t]) IN
       IF b # NoBuf
       THEN /\ refcnt' = [refcnt EXCEPT ![b] = @ + 1]
            /\ l_b' = [l_b EXCEPT ![t] = b]
            /\ path' = [path EXCEPT ![t] = "hit"]
            /\ pc' = [pc EXCEPT ![t] = "sleep"]
       ELSE /\ pc' = [pc EXCEPT ![t] = "miss"]
            /\ UNCHANGED << refcnt, l_b, path >>
  /\ hash_lock' = [hash_lock EXCEPT ![l_hash[t]] = NoThread]
  /\ UNCHANGED << dev, blockno, valid, next, prev, slk_locked, slk_pid,
                  lock, a_dev, a_blockno, l_i, l_hash, panicked, nread,
                  pins >>
  /\ UNCHANGED << kvars, hist >>

\* Not cached: acquire(&bcache.lock);
BgetLockGlobal(t) ==
  /\ Running /\ pc[t] = "miss"
  /\ lock = NoThread
  /\ lock' = t
  /\ pc' = [pc EXCEPT ![t] = "miss_bucket"]
  /\ UNCHANGED << dev, blockno, valid, refcnt, next, prev, slk_locked,
                  slk_pid, hash_lock, a_dev, a_blockno, l_b, l_i, l_hash,
                  panicked, path, nread, pins >>
  /\ UNCHANGED << kvars, hist >>

\* acquire(&bcache.hash_lock[hash_idx]); with bcache.lock held
BgetLockTarget(t) ==
  /\ Running /\ pc[t] = "miss_bucket"
  /\ hash_lock[l_hash[t]] = NoThread
  /\ hash_lock' = [hash_lock EXCEPT ![l_hash[t]] = t]
  /\ pc' = [pc EXCEPT ![t] = "rescan"]
  /\ UNCHANGED << dev, blockno, valid, refcnt, next, prev, slk_locked,
                  slk_pid, lock, a_dev, a_blockno, l_b, l_i, l_hash,
                  panicked, path, nread, pins >>
  /\ UNCHANGED << kvars, hist >>

\* Faulty variant of ReScanKey: the bucket is not searched again.
ReScanKeyNever(i, d, bn) == NoBuf

\* The second loop of bget: the bucket is searched again under both locks.
ReScanKey(i, d, bn) == ScanKeyFrom(next[HeadOf(i)], HeadOf(i), d, bn)

\* The re-check: on a hit refcnt++, release the bucket lock and bcache.lock;
\* on a miss enter the donor loop at i = 0, or panic when the loop is empty.
BgetRescan(t) ==
  /\ Running /\ pc[t] = "rescan"
  /\ LET b == ReScanKey(l_hash[t], a_dev[t], a_blockno[t])
         i == NextDonor(0, l_hash[t])
     IN
       IF b # NoBuf
       THEN /\ refcnt' = [refcnt EXCEPT ![b] = @ + 1]
            /\ l_b' = [l_b EXCEPT ![t] = b]
            /\ path' = [path EXCEPT ![t] = "recheck"]
            /\ hash_lock' = [hash_lock EXCEPT ![l_hash[t]] = NoThread]
            /\ lock' = NoThread
            /\ pc' = [pc EXCEPT ![t] = "sleep"]
            /\ UNCHANGED << l_i, panicked >>
       ELSE /\ l_i' = [l_i EXCEPT ![t] = i]
            /\ IF i = NUM_BUCKET
               THEN /\ panicked' = "bget: no buffers"
                    /\ pc' = [pc EXCEPT ![t] = "panic"]
               ELSE /\ pc' = [pc EXCEPT ![t] = "donor"]
                    /\ UNCHANGED panicked
            /\ UNCHANGED << refcnt, l_b, path, hash_lock, lock >>
  /\ UNCHANGED << dev, blockno, valid, next, prev, slk_locked, slk_pid,
                  a_dev, a_blockno, l_hash, nread, pins >>
  /\ UNCHANGED << kvars, hist >>

\* acquire(&bcache.hash_lock[i]); in the donor loop
BgetLockDonor(t) ==
  /\ Running /\ pc[t] = "donor"
  /\ hash_lock[l_i[t]] = NoThread
  /\ hash_lock' = [hash_lock EXCEPT ![l_i[t]] = t]
  /\ pc' = [pc EXCEPT ![t] = "donor_scan"]
  /\ UNCHANGED << dev, blockno, valid, refcnt, next, prev, slk_locked,
                  slk_pid, lock, a_dev, a_blockno, l_b, l_i, l_hash,
                  panicked, path, nread, pins >>
  /\ UNCHANGED << kvars, hist >>

\* The spinlocks a thread still holds when it leaves the donor loop with a
\* victim: release(hash_lock[hash_idx]); release(hash_lock[i]);
\* release(&bcache.lock);
EvictReleaseBuckets(t) ==
  [hash_lock EXCEPT ![l_hash[t]] = NoThread, ![l_i[t]] = NoThread]

\* Faulty variant of EvictReleaseGlobal: bcache.lock is kept across
\* acquiresleep.
EvictKeepGlobal(t) == t

EvictReleaseGlobal(t) == NoThread

\* The body of the donor loop for bucket i, with bcache.lock, the target
\* bucket lock and hash_lock[i] held.  A buffer with refcnt == 0, searched
\* from the tail, is unlinked, linked at the head of the target bucket and
\* given the new key; without one the lock of bucket i is released and the
\* loop goes on, to panic("bget: no buffers") after the last bucket.
BgetDonorScan(t) ==
  /\ Running /\ pc[t] = "donor_scan"
  /\ LET b == ScanFree(l_i[t])
         i == NextDonor(l_i[t] + 1, l_hash[t])
     IN
       IF b # NoBuf
       THEN LET L == LinkAtHead(Unlink([n |-> next, p |-> prev], b), b,
                                HeadOf(l_hash[t]))
            IN  /\ next' = L.n
                /\ prev' = L.p
                /\ dev' = [dev EXCEPT ![b] = a_dev[t]]
                /\ blockno' = [blockno EXCEPT ![b] = a_blockno[t]]
                /\ valid' = [valid EXCEPT ![b] = 0]
                /\ refcnt' = [refcnt EXCEPT ![b] = 1]
                /\ nread' = [nread EXCEPT ![b] = 0]
                /\ hash_lock' = EvictReleaseBuckets(t)
                /\ lock' = EvictReleaseGlobal(t)
                /\ l_b' = [l_b EXCEPT ![t] = b]
                /\ path' = [path EXCEPT ![t] = "evict"]
                /\ pc' = [pc EXCEPT ![t] = "sleep"]
                /\ l_i' = [l_i EXCEPT ![t] = 0]
                /\ UNCHANGED panicked
       ELSE /\ hash_lock' = [hash_lock EXCEPT ![l_i[t]] = NoThread]
            /\ l_i' = [l_i EXCEPT ![t] = i]
            /\ IF i = NUM_BUCKET
               THEN /\ panicked' = "bget: no buffers"
                    /\ pc' = [pc EXCEPT ![t] = "panic"]
               ELSE /\ pc' = [pc EXCEPT ![t] = "donor"]
                    /\ UNCHANGED panicked
            /\ UNCHANGED << dev, blockno, valid, refcnt, next, prev, lock,
                            l_b, path, nread >>
  /\ UNCHANGED << slk_locked, slk_pid, a_dev, a_blockno, l_hash, pins >>
  /\ UNCHANGED << kvars, hist >>

\* Faulty variant of BgetSleep: bget returns b without acquiresleep.
BgetNoSleep(t) ==
  /\ Running /\ pc[t] = "sleep"
  /\ pc' = [pc EXCEPT ![t] = "bread"]
  /\ UNCHANGED << dev, blockno, valid, refcnt, next, prev, slk_locked,
                  slk_pid, lock, hash_lock, a_dev, a_blockno, l_b, l_i,
                  l_hash, panicked, path, nread, pins >>
  /\ UNCHANGED << kvars, hist >>

\* acquiresleep(&b->lock); return b;  the last two statements of every
\* path of bget.  The caller sleeps until the lock is free.
BgetSleep(t) ==
  /\ Running /\ pc[t] = "sleep"
  /\ ~slk_locked[l_b[t]]
  /\ slk_locked' = [slk_locked EXCEPT ![l_b[t]] = TRUE]
  /\ slk_pid' = [slk_pid EXCEPT ![l_b[t]] = t]
  /\ pc' = [pc EXCEPT ![t] = "bread"]
  /\ UNCHANGED << dev, blockno, valid, refcnt, next, prev, lock, hash_lock,
                  a_dev, a_blockno, l_b, l_i, l_hash, panicked, path,
                  nread, pins >>
  /\ UNCHANGED << kvars, hist >>

\* Faulty variant of NeedsRead: bread reads the disk on every call.
NeedsReadAlways(b) == TRUE

\* Faulty variant of NeedsRead: bread never reads the disk.
NeedsReadNever(b) == FALSE

\* if(!b->valid)
NeedsRead(b) == valid[b] = 0

\* bread after bget: if(!b->valid) start virtio_disk_rw(b, 0); else return b.
BreadCheck(t) ==
  /\ Running /\ pc[t] = "bread"
  /\ pc' = [pc EXCEPT ![t] = IF NeedsRead(l_b[t]) THEN "disk_read"
                                                  ELSE "holding"]
  /\ UNCHANGED << dev, blockno, valid, refcnt, next, prev, slk_locked,
                  slk_pid, lock, hash_lock, a_dev, a_blockno, l_b, l_i,
                  l_hash, panicked, path, nread, pins >>
  /\ UNCHANGED << kvars, hist >>

\* virtio_disk_rw(b, 0) completes; b->valid = 1; return b;
BreadRead(t) ==
  /\ Running /\ pc[t] = "disk_read"
  /\ valid' = [valid EXCEPT ![l_b[t]] = 1]
  /\ nread' = [nread EXCEPT ![l_b[t]] = @ + 1]
  /\ pc' = [pc EXCEPT ![t] = "holding"]
  /\ UNCHANGED << dev, blockno, refcnt, next, prev, slk_locked, slk_pid,
                  lock, hash_lock, a_dev, a_blockno, l_b, l_i, l_hash,
                  panicked, path, pins >>
  /\ UNCHANGED << kvars, hist >>

\* ------------------------------------------------------------------------
\* bwrite, brelse, bpin, bunpin
\* ------------------------------------------------------------------------

\* bwrite(b) by the holder: holdingsleep passes; virtio_disk_rw(b, 1) starts.
BwriteStart(t) ==
  /\ Running /\ pc[t] = "holding"
  /\ holdingsleep(l_b[t], t)
  /\ pc' = [pc EXCEPT ![t] = "disk_write"]
  /\ UNCHANGED << dev, blockno, valid, refcnt, next, prev, slk_locked,
                  slk_pid, lock, hash_lock, a_dev, a_blockno, l_b, l_i,
                  l_hash, panicked, path, nread, pins >>
  /\ UNCHANGED << kvars, hist >>

\* virtio_disk_rw(b, 1) completes and bwrite returns.
BwriteDone(t) ==
  /\ Running /\ pc[t] = "disk_write"
  /\ pc' = [pc EXCEPT ![t] = "holding"]
  /\ UNCHANGED << dev, blockno, valid, refcnt, next, prev, slk_locked,
                  slk_pid, lock, hash_lock, a_dev, a_blockno, l_b, l_i,
                  l_hash, panicked, path, nread, pins >>
  /\ UNCHANGED << kvars, hist >>

\* Faulty variant of BrelseStart: the sleep lock is not released.
BrelseKeepLock(t) ==
  /\ Running /\ pc[t] = "holding"
  /\ holdingsleep(l_b[t], t)
  /\ l_hash' = [l_hash EXCEPT ![t] = hash_val(blockno[l_b[t]])]
  /\ path' = [path EXCEPT ![t] = "none"]
  /\ pc' = [pc EXCEPT ![t] = "brelse"]
  /\ UNCHANGED << dev, blockno, valid, refcnt, next, prev, slk_locked,
                  slk_pid, lock, hash_lock, a_dev, a_blockno, l_b, l_i,
                  panicked, nread, pins >>
  /\ UNCHANGED << kvars, hist >>

\* brelse(b) by the holder: holdingsleep passes; releasesleep(&b->lock);
\* hash_idx = hash_val(b->blockno);
BrelseStart(t) ==
  /\ Running /\ pc[t] = "holding"
  /\ holdingsleep(l_b[t], t)
  /\ slk_locked' = [slk_locked EXCEPT ![l_b[t]] = FALSE]
  /\ slk_pid' = [slk_pid EXCEPT ![l_b[t]] = NoThread]
  /\ l_hash' = [l_hash EXCEPT ![t] = hash_val(blockno[l_b[t]])]
  /\ path' = [path EXCEPT ![t] = "none"]
  /\ pc' = [pc EXCEPT ![t] = "brelse"]
  /\ UNCHANGED << dev, blockno, valid, refcnt, next, prev, lock, hash_lock,
                  a_dev, a_blockno, l_b, l_i, panicked, nread, pins >>
  /\ UNCHANGED << kvars, hist >>

\* acquire(&bcache.hash_lock[hash_idx]); in brelse
BrelseLock(t) ==
  /\ Running /\ pc[t] = "brelse"
  /\ hash_lock[l_hash[t]] = NoThread
  /\ hash_lock' = [hash_lock EXCEPT ![l_hash[t]] = t]
  /\ pc' = [pc EXCEPT ![t] = "brelse_body"]
  /\ UNCHANGED << dev, blockno, valid, refcnt, next, prev, slk_locked,
                  slk_pid, lock, a_dev, a_blockno, l_b, l_i, l_hash,
                  panicked, path, nread, pins >>
  /\ UNCHANGED << kvars, hist >>

\* Faulty variant of NoOneWaiting: the buffer is never moved.
NoOneWaitingNever(c) == FALSE

\* if (b->refcnt == 0), on the decremented count: no one is waiting for it.
NoOneWaiting(c) == c = 0

\* b->refcnt--; if (b->refcnt == 0) { unlink b; link b at the head of its
\* bucket }  release(&bcache.hash_lock[hash_idx]);
BrelseBody(t) ==
  /\ Running /\ pc[t] = "brelse_body"
  /\ LET b == l_b[t]
         L == LinkAtHead(Unlink([n |-> next, p |-> prev], b), b,
                         HeadOf(l_hash[t]))
     IN  /\ refcnt' = [refcnt EXCEPT ![b] = @ - 1]
         /\ IF NoOneWaiting(refcnt[b] - 1)
            THEN next' = L.n /\ prev' = L.p
            ELSE UNCHANGED << next, prev >>
  /\ hash_lock' = [hash_lock EXCEPT ![l_hash[t]] = NoThread]
  /\ pc' = [pc EXCEPT ![t] = "idle"]
  /\ a_dev' = [a_dev EXCEPT ![t] = 0]
  /\ a_blockno' = [a_blockno EXCEPT ![t] = 0]
  /\ l_b' = [l_b EXCEPT ![t] = NoBuf]
  /\ l_hash' = [l_hash EXCEPT ![t] = 0]
  /\ UNCHANGED << dev, blockno, valid, slk_locked, slk_pid, lock, l_i,
                  panicked, path, nread, pins >>
  /\ UNCHANGED << kvars, hist >>

\* bpin(b) by the holder of b: hash_idx = hash_val(b->blockno);
BpinStart(t) ==
  /\ Running /\ pc[t] = "holding"
  /\ pins[l_b[t]] < MaxPin
  /\ l_hash' = [l_hash EXCEPT ![t] = hash_val(blockno[l_b[t]])]
  /\ pc' = [pc EXCEPT ![t] = "bpin"]
  /\ UNCHANGED << dev, blockno, valid, refcnt, next, prev, slk_locked,
                  slk_pid, lock, hash_lock, a_dev, a_blockno, l_b, l_i,
                  panicked, path, nread, pins >>
  /\ UNCHANGED << kvars, hist >>

\* Faulty variant of BpinLock: the bucket lock is not taken.
BpinNoLock(t) ==
  /\ Running /\ pc[t] = "bpin"
  /\ pc' = [pc EXCEPT ![t] = "bpin_body"]
  /\ UNCHANGED << dev, blockno, valid, refcnt, next, prev, slk_locked,
                  slk_pid, lock, hash_lock, a_dev, a_blockno, l_b, l_i,
                  l_hash, panicked, path, nread, pins >>
  /\ UNCHANGED << kvars, hist >>

\* acquire(&bcache.hash_lock[hash_idx]); in bpin
BpinLock(t) ==
  /\ Running /\ pc[t] = "bpin"
  /\ hash_lock[l_hash[t]] = NoThread
  /\ hash_lock' = [hash_lock EXCEPT ![l_hash[t]] = t]
  /\ pc' = [pc EXCEPT ![t] = "bpin_body"]
  /\ UNCHANGED << dev, blockno, valid, refcnt, next, prev, slk_locked,
                  slk_pid, lock, a_dev, a_blockno, l_b, l_i, l_hash,
                  panicked, path, nread, pins >>
  /\ UNCHANGED << kvars, hist >>

\* b->refcnt++; release(&bcache.hash_lock[hash_idx]);
BpinBody(t) ==
  /\ Running /\ pc[t] = "bpin_body"
  /\ refcnt' = [refcnt EXCEPT ![l_b[t]] = @ + 1]
  /\ pins' = [pins EXCEPT ![l_b[t]] = @ + 1]
  /\ hash_lock' = [hash_lock EXCEPT ![l_hash[t]] = NoThread]
  /\ pc' = [pc EXCEPT ![t] = "holding"]
  /\ UNCHANGED << dev, blockno, valid, next, prev, slk_locked, slk_pid,
                  lock, a_dev, a_blockno, l_b, l_i, l_hash, panicked, path,
                  nread >>
  /\ UNCHANGED << kvars, hist >>

\* bunpin(b) of a pinned buffer b, by a thread that holds no buffer or
\* holds b itself: hash_idx = hash_val(b->blockno);
BunpinStart(t, b) ==
  /\ Running
  /\ \/ pc[t] = "idle"
     \/ pc[t] = "holding" /\ l_b[t] = b
  /\ pins[b] > 0
  /\ pins' = [pins EXCEPT ![b] = @ - 1]
  /\ l_b' = [l_b EXCEPT ![t] = b]
  /\ l_hash' = [l_hash EXCEPT ![t] = hash_val(blockno[b])]
  /\ pc' = [pc EXCEPT ![t] = "bunpin"]
  /\ UNCHANGED << dev, blockno, valid, refcnt, next, prev, slk_locked,
                  slk_pid, lock, hash_lock, a_dev, a_blockno, l_i,
                  panicked, path, nread >>
  /\ UNCHANGED << kvars, hist >>

\* acquire(&bcache.hash_lock[hash_idx]); in bunpin
BunpinLock(t) ==
  /\ Running /\ pc[t] = "bunpin"
  /\ hash_lock[l_hash[t]] = NoThread
  /\ hash_lock' = [hash_lock EXCEPT ![l_hash[t]] = t]
  /\ pc' = [pc EXCEPT ![t] = "bunpin_body"]
  /\ UNCHANGED << dev, blockno, valid, refcnt, next, prev, slk_locked,
                  slk_pid, lock, a_dev, a_blockno, l_b, l_i, l_hash,
                  panicked, path, nread, pins >>
  /\ UNCHANGED << kvars, hist >>

\* b->refcnt--; release(&bcache.hash_lock[hash_idx]);  The thread goes on
\* holding b when it owns b's sleep lock, and is idle otherwise.
BunpinBody(t) ==
  /\ Running /\ pc[t] = "bunpin_body"
  /\ refcnt' = [refcnt EXCEPT ![l_b[t]] = @ - 1]
  /\ hash_lock' = [hash_lock EXCEPT ![l_hash[t]] = NoThread]
  /\ IF holdingsleep(l_b[t], t)
     THEN /\ pc' = [pc EXCEPT ![t] = "holding"]
          /\ UNCHANGED << l_b, l_hash >>
     ELSE /\ pc' = [pc EXCEPT ![t] = "idle"]
          /\ l_b' = [l_b EXCEPT ![t] = NoBuf]
          /\ l_hash' = [l_hash EXCEPT ![t] = 0]
  /\ UNCHANGED << dev, blockno, valid, next, prev, slk_locked, slk_pid,
                  lock, a_dev, a_blockno, l_i, panicked, path, nread,
                  pins >>
  /\ UNCHANGED << kvars, hist >>

\* brelse(b) on any buffer b by a thread that holds no buffer, or holds
\* another one: if(!holdingsleep(&b->lock)) panic("brelse"); else
\* releasesleep(&b->lock); hash_idx = hash_val(b->blockno);
BrelseCall(t, b) ==
  /\ Running
  /\ \/ pc[t] = "idle"
     \/ pc[t] = "holding" /\ l_b[t] # b
  /\ l_b' = [l_b EXCEPT ![t] = b]
  /\ IF holdingsleep(b, t)
     THEN /\ slk_locked' = [slk_locked EXCEPT ![b] = FALSE]
          /\ slk_pid' = [slk_pid EXCEPT ![b] = NoThread]
          /\ l_hash' = [l_hash EXCEPT ![t] = hash_val(blockno[b])]
          /\ path' = [path EXCEPT ![t] = "none"]
          /\ pc' = [pc EXCEPT ![t] = "brelse"]
          /\ UNCHANGED panicked
     ELSE /\ panicked' = "brelse"
          /\ pc' = [pc EXCEPT ![t] = "panic"]
          /\ UNCHANGED << slk_locked, slk_pid, l_hash, path >>
  /\ UNCHANGED << dev, blockno, valid, refcnt, next, prev, lock, hash_lock,
                  a_dev, a_blockno, l_i, nread, pins >>
  /\ UNCHANGED << kvars, hist >>

\* bwrite(b) on any buffer b by a thread that holds no buffer, or holds
\* another one: if(!holdingsleep(&b->lock)) panic("bwrite"); else
\* virtio_disk_rw(b, 1) starts.
BwriteCall(t, b) ==
  /\ Running
  /\ \/ pc[t] = "idle"
     \/ pc[t] = "holding" /\ l_b[t] # b
  /\ l_b' = [l_b EXCEPT ![t] = b]
  /\ IF holdingsleep(b, t)
     THEN /\ pc' = [pc EXCEPT ![t] = "disk_write"]
          /\ UNCHANGED panicked
     ELSE /\ panicked' = "bwrite"
          /\ pc' = [pc EXCEPT ![t] = "panic"]
  /\ UNCHANGED << dev, blockno, valid, refcnt, next, prev, slk_locked,
                  slk_pid, lock, hash_lock, a_dev, a_blockno, l_i, l_hash,
                  path, nread, pins >>
  /\ UNCHANGED << kvars, hist >>

\* ------------------------------------------------------------------------
\* kalloc.c: kinit, kfree, kalloc, increase_ref_counter
\* ------------------------------------------------------------------------

\* The pages linked from pointer r on through struct run's next.
RECURSIVE ListFrom(_, _)
ListFrom(r, fuel) ==
  IF r \notin Managed \/ fuel = 0 THEN {}
  ELSE {r} \cup ListFrom(mem[r], fuel - 1)

\* The pages on kmem.freelist.
FreePages == ListFrom(freelist, NPAGE)

\* freerange(end, PHYSTOP) of kinit: kfree of every managed page in address
\* order, each pushed in front of the pages before it.
KInit ==
  /\ freelist = IF Managed = {} THEN NoPage ELSE NPAGE - 1
  /\ mem = [p \in Managed |-> IF p = EndIdx THEN NoPage ELSE p - 1]
  /\ ref_counter = [p \in Pages |-> 0]
  /\ ref_lock = [p \in Pages |-> NoThread]
  /\ kmem_lock = NoThread
  /\ kpc = [t \in Threads |-> "idle"]
  /\ k_r = [t \in Threads |-> NoPage]
  /\ krefs = [p \in Pages |-> 0]
  /\ npush = [p \in Pages |-> IF p \in Managed THEN 1 ELSE 0]
  /\ nfree = [p \in Pages |-> 0]
  /\ kfailed = [t \in Threads |-> FALSE]

\* kfree(pa) of a page the caller holds a reference to: the address checks
\* pass; idx = PA2IDX(r); acquire(&kmem.ref_lock[idx]);
KfreeLock(t, p) ==
  /\ kpc[t] = "idle"
  /\ krefs[p] > 0
  /\ ref_lock[p] = NoThread
  /\ ref_lock' = [ref_lock EXCEPT ![p] = t]
  /\ krefs' = [krefs EXCEPT ![p] = @ - 1]
  /\ k_r' = [k_r EXCEPT ![t] = p]
  /\ kpc' = [kpc EXCEPT ![t] = "kfree_dec"]
  /\ UNCHANGED << freelist, ref_counter, kmem_lock, mem, npush, nfree >>
  /\ UNCHANGED << bvars, hist, kfailed >>

\* Faulty variant of CountReachedZero: every kfree pushes the page.
CountIgnored(c) == TRUE

\* Faulty variant of CountReachedZero: no kfree pushes the page.
CountNeverZero(c) == FALSE

\* Faulty variant of CountReachedZero: the kfree that leaves one reference
\* pushes the page.
CountBelowTwo(c) == c <= 1

\* if(kmem.ref_counter[idx] <= 0)
CountReachedZero(c) == c <= 0

\* kmem.ref_counter[idx] -= 1; if the count reached zero memset(pa, 1,
\* PGSIZE) and go on to the free list, else release(&kmem.ref_lock[idx]).
KfreeDec(t) ==
  /\ kpc[t] = "kfree_dec"
  /\ LET p == k_r[t] IN
       /\ ref_counter' = [ref_counter EXCEPT ![p] = @ - 1]
       /\ IF CountReachedZero(ref_counter[p] - 1)
          THEN /\ mem' = [mem EXCEPT ![p] = Junk1]
               /\ kpc' = [kpc EXCEPT ![t] = "kfree_list"]
               /\ UNCHANGED << ref_lock, k_r, nfree >>
          ELSE /\ ref_lock' = [ref_lock EXCEPT ![p] = NoThread]
               /\ kpc' = [kpc EXCEPT ![t] = "idle"]
               /\ k_r' = [k_r EXCEPT ![t] = NoPage]
               /\ nfree' = [nfree EXCEPT ![p] = IF @ < MaxRef THEN @ + 1 ELSE @]
               /\ UNCHANGED mem
  /\ UNCHANGED << freelist, kmem_lock, krefs, npush >>
  /\ UNCHANGED << bvars, hist, kfailed >>

\* acquire(&kmem.lock); in kfree, with the page's ref_lock held
KfreeLockList(t) ==
  /\ kpc[t] = "kfree_list"
  /\ kmem_lock = NoThread
  /\ kmem_lock' = t
  /\ kpc' = [kpc EXCEPT ![t] = "kfree_push"]
  /\ UNCHANGED << freelist, ref_counter, ref_lock, mem, k_r, krefs, npush,
                  nfree >>
  /\ UNCHANGED << bvars, hist, kfailed >>

\* Faulty variant of PushHead: the head of the free list stays as it was,
\* and the page is lost.
PushHeadLost(r) == freelist

\* kmem.freelist = r;
PushHead(r) == r

\* r->next = kmem.freelist; kmem.freelist = r; kmem.ref_counter[idx] = 0;
\* release(&kmem.lock);
KfreePush(t) ==
  /\ kpc[t] = "kfree_push"
  /\ LET p == k_r[t] IN
       /\ mem' = [mem EXCEPT ![p] = freelist]
       /\ freelist' = PushHead(p)
       /\ ref_counter' = [ref_counter EXCEPT ![p] = 0]
       /\ npush' = [npush EXCEPT ![p] = @ + 1]
  /\ kmem_lock' = NoThread
  /\ kpc' = [kpc EXCEPT ![t] = "kfree_unlock"]
  /\ UNCHANGED << ref_lock, k_r, krefs, nfree >>
  /\ UNCHANGED << bvars, hist, kfailed >>

\* release(&kmem.ref_lock[idx]); at the end of kfree
KfreeUnlock(t) ==
  /\ kpc[t] = "kfree_unlock"
  /\ ref_lock' = [ref_lock EXCEPT ![k_r[t]] = NoThread]
  /\ nfree' = [nfree EXCEPT ![k_r[t]] = IF @ < MaxRef THEN @ + 1 ELSE @]
  /\ kpc' = [kpc EXCEPT ![t] = "idle"]
  /\ k_r' = [k_r EXCEPT ![t] = NoPage]
  /\ UNCHANGED << freelist, ref_counter, kmem_lock, mem, krefs, npush >>
  /\ UNCHANGED << bvars, hist, kfailed >>

\* kalloc(): acquire(&kmem.lock);
KallocLock(t) ==
  /\ kpc[t] = "idle"
  /\ kmem_lock = NoThread
  /\ kmem_lock' = t
  /\ kpc' = [kpc EXCEPT ![t] = "kalloc_pop"]
  /\ UNCHANGED << freelist, ref_counter, ref_lock, mem, k_r, krefs, npush,
                  nfree >>
  /\ UNCHANGED << bvars, hist, kfailed >>

\* Faulty variant of PopNext: the head of the free list is not advanced.
PopKeep(r) == r

\* kmem.freelist = r->next;
PopNext(r) == mem[r]

\* r = kmem.freelist; if(r) kmem.freelist = r->next; release(&kmem.lock);
\* Without a page kalloc returns 0.
KallocPop(t) ==
  /\ kpc[t] = "kalloc_pop"
  /\ IF freelist # NoPage
     THEN /\ k_r' = [k_r EXCEPT ![t] = freelist]
          /\ freelist' = PopNext(freelist)
          /\ npush' = [npush EXCEPT ![freelist] = 0]
          /\ nfree' = [nfree EXCEPT ![freelist] = 0]
          /\ kpc' = [kpc EXCEPT ![t] = "kalloc_fill"]
          /\ UNCHANGED kfailed
     ELSE /\ kpc' = [kpc EXCEPT ![t] = "idle"]
          /\ kfailed' = [kfailed EXCEPT ![t] = TRUE]
          /\ UNCHANGED << k_r, freelist, npush, nfree >>
  /\ kmem_lock' = NoThread
  /\ UNCHANGED << ref_counter, ref_lock, mem, krefs >>
  /\ UNCHANGED << bvars, hist >>

\* idx = PA2IDX(r); memset((char*)r, 5, PGSIZE);
KallocFill(t) ==
  /\ kpc[t] = "kalloc_fill"
  /\ mem' = [mem EXCEPT ![k_r[t]] = Junk5]
  /\ kpc' = [kpc EXCEPT ![t] = "kalloc_ref"]
  /\ UNCHANGED << freelist, ref_counter, ref_lock, kmem_lock, k_r, krefs,
                  npush, nfree >>
  /\ UNCHANGED << bvars, hist, kfailed >>

\* acquire(&kmem.ref_lock[idx]); in kalloc
KallocLockRef(t) ==
  /\ kpc[t] = "kalloc_ref"
  /\ ref_lock[k_r[t]] = NoThread
  /\ ref_lock' = [ref_lock EXCEPT ![k_r[t]] = t]
  /\ kpc' = [kpc EXCEPT ![t] = "kalloc_set"]
  /\ UNCHANGED << freelist, ref_counter, kmem_lock, mem, k_r, krefs, npush,
                  nfree >>
  /\ UNCHANGED << bvars, hist, kfailed >>

\* kmem.ref_counter[idx] = 1; release(&kmem.ref_lock[idx]); return r;
\* The caller now holds one reference to the page.
KallocSet(t) ==
  /\ kpc[t] = "kalloc_set"
  /\ ref_counter' = [ref_counter EXCEPT ![k_r[t]] = 1]
  /\ ref_lock' = [ref_lock EXCEPT ![k_r[t]] = NoThread]
  /\ krefs' = [krefs EXCEPT ![k_r[t]] = @ + 1]
  /\ kfailed' = [kfailed EXCEPT ![t] = FALSE]
  /\ kpc' = [kpc EXCEPT ![t] = "idle"]
  /\ k_r' = [k_r EXCEPT ![t] = NoPage]
  /\ UNCHANGED << freelist, kmem_lock, mem, npush, nfree >>
  /\ UNCHANGED << bvars, hist >>

\* Faulty variant of KincLock: the count is changed without the page's
\* ref_lock.
KincNoLock(t, p) ==
  /\ kpc[t] = "idle"
  /\ krefs[p] > 0 /\ krefs[p] < MaxRef
  /\ k_r' = [k_r EXCEPT ![t] = p]
  /\ kpc' = [kpc EXCEPT ![t] = "kinc_body"]
  /\ UNCHANGED << freelist, ref_counter, ref_lock, kmem_lock, mem, krefs,
                  npush, nfree >>
  /\ UNCHANGED << bvars, hist, kfailed >>

\* increase_ref_counter(pa) of a page the caller holds a reference to:
\* idx = PA2IDX(pa); acquire(&kmem.ref_lock[idx]);
KincLock(t, p) ==
  /\ kpc[t] = "idle"
  /\ krefs[p] > 0 /\ krefs[p] < MaxRef
  /\ ref_lock[p] = NoThread
  /\ ref_lock' = [ref_lock EXCEPT ![p] = t]
  /\ k_r' = [k_r EXCEPT ![t] = p]
  /\ kpc' = [kpc EXCEPT ![t] = "kinc_body"]
  /\ UNCHANGED << freelist, ref_counter, kmem_lock, mem, krefs, npush,
                  nfree >>
  /\ UNCHANGED << bvars, hist, kfailed >>

\* kmem.ref_counter[idx] += 1; release(&kmem.ref_lock[idx]);
\* The callers now hold one reference more.
KincBody(t) ==
  /\ kpc[t] = "kinc_body"
  /\ ref_counter' = [ref_counter EXCEPT ![k_r[t]] = @ + 1]
  /\ ref_lock' = [ref_lock EXCEPT ![k_r[t]] = NoThread]
  /\ krefs' = [krefs EXCEPT ![k_r[t]] = @ + 1]
  /\ kpc' = [kpc EXCEPT ![t] = "idle"]
  /\ k_r' = [k_r EXCEPT ![t] = NoPage]
  /\ UNCHANGED << freelist, kmem_lock, mem, npush, nfree >>
  /\ UNCHANGED << bvars, hist, kfailed >>

\* ------------------------------------------------------------------------
\* The buffer cache under NTHREAD concurrent callers
\* ------------------------------------------------------------------------

Init == BInit /\ KInit /\ hist = << >>

Next ==
  \/ \E t \in Threads, k \in Keys : BgetLockBucket(t, k[1], k[2])
  \/ \E t \in Threads : BgetScan(t)
  \/ \E t \in Threads : BgetLockGlobal(t)
  \/ \E t \in Threads : BgetLockTarget(t)
  \/ \E t \in Threads : BgetRescan(t)
  \/ \E t \in Threads : BgetLockDonor(t)
  \/ \E t \in Threads : BgetDonorScan(t)
  \/ \E t \in Threads : BgetSleep(t)
  \/ \E t \in Threads : BreadCheck(t)
  \/ \E t \in Threads : BreadRead(t)
  \/ \E t \in Threads : BwriteStart(t)
  \/ \E t \in Threads : BwriteDone(t)
  \/ \E t \in Threads : BrelseStart(t)
  \/ \E t \in Threads : BrelseLock(t)
  \/ \E t \in Threads : BrelseBody(t)
  \/ \E t \in Threads : BpinStart(t)
  \/ \E t \in Threads : BpinLock(t)
  \/ \E t \in Threads : BpinBody(t)
  \/ \E t \in Threads, b \in Bufs : BunpinStart(t, b)
  \/ \E t \in Threads : BunpinLock(t)
  \/ \E t \in Threads : BunpinBody(t)

vars == << bvars, kvars, hist >>

Spec == Init /\ [][Next]_vars

\* ------------------------------------------------------------------------
\* The buffer cache with callers that also call brelse and bwrite on
\* buffers whose sleep lock they do not hold
\* ------------------------------------------------------------------------

NextF ==
  \/ Next
  \/ \E t \in Threads, b \in Bufs : BrelseCall(t, b)
  \/ \E t \in Threads, b \in Bufs : BwriteCall(t, b)

SpecF == Init /\ [][NextF]_vars

\* ------------------------------------------------------------------------
\* The page allocator under NTHREAD concurrent callers
\* ------------------------------------------------------------------------

NextK ==
  \/ \E t \in Threads : KallocLock(t)
  \/ \E t \in Threads : KallocPop(t)
  \/ \E t \in Threads : KallocFill(t)
  \/ \E t \in Threads : KallocLockRef(t)
  \/ \E t \in Threads : KallocSet(t)
  \/ \E t \in Threads, p \in Managed : KfreeLock(t, p)
  \/ \E t \in Threads : KfreeDec(t)
  \/ \E t \in Threads : KfreeLockList(t)
  \/ \E t \in Threads : KfreePush(t)
  \/ \E t \in Threads : KfreeUnlock(t)
  \/ \E t \in Threads, p \in Managed : KincLock(t, p)
  \/ \E t \in Threads : KincBody(t)

SpecK == Init /\ [][NextK]_vars

\* ------------------------------------------------------------------------
\* The sequential LRU scenario: one thread asks for NBUF + 1 distinct
\* blocks of device 1 in increasing order and releases each buffer before
\* it asks for the next; nothing is pinned.
\* ------------------------------------------------------------------------

LruBlocks == 1 .. MaxLruBlock

LruBread(t, bn) ==
  /\ Len(hist) < NBUF + 1
  /\ IF hist = << >> THEN TRUE ELSE bn > hist[Len(hist)]
  /\ BgetLockBucketCore(t, 1, bn)
  /\ hist' = Append(hist, bn)

NextLRU ==
  \/ \E t \in {1}, bn \in LruBlocks : LruBread(t, bn)
  \/ \E t \in {1} : BgetScan(t)
  \/ \E t \in {1} : BgetLockGlobal(t)
  \/ \E t \in {1} : BgetLockTarget(t)
  \/ \E t \in {1} : BgetRescan(t)
  \/ \E t \in {1} : BgetLockDonor(t)
  \/ \E t \in {1} : BgetDonorScan(t)
  \/ \E t \in {1} : BgetSleep(t)
  \/ \E t \in {1} : BreadCheck(t)
  \/ \E t \in {1} : BreadRead(t)
  \/ \E t \in {1} : BrelseStart(t)
  \/ \E t \in {1} : BrelseLock(t)
  \/ \E t \in {1} : BrelseBody(t)

SpecLRU == Init /\ [][NextLRU]_vars

\* ------------------------------------------------------------------------
\* Properties of the buffer cache
\* ------------------------------------------------------------------------

\* Thread t has been handed buffer l_b[t] by bget for the key
\* (a_dev[t], a_blockno[t]) and has not finished brelse yet.
Outstanding(t) == a_dev[t] # 0 /\ l_b[t] # NoBuf

\* Thread t is between the return of bget and the releasesleep of brelse.
InUse(t) ==
  \/ pc[t] \in {"bread", "disk_read", "holding", "disk_write", "bpin",
                "bpin_body"}
  \/ pc[t] \in {"bunpin", "bunpin_body"} /\ a_dev[t] # 0

\* The spinlocks thread t holds: GL is bcache.lock, i is hash_lock[i].
GL == NUM_BUCKET

HeldLocks(t) ==
  (IF lock = t THEN {GL} ELSE {}) \cup {i \in Buckets : hash_lock[i] = t}

\* C1 (cache identity): no two buffers with refcnt > 0 carry the same
\* (dev, blockno) key, and any two threads that were handed a buffer for
\* the same key and have not released it yet were handed the same buffer.
CacheIdentity ==
  /\ \A b1, b2 \in Bufs :
       (b1 # b2 /\ refcnt[b1] > 0 /\ refcnt[b2] > 0)
         => ~(dev[b1] = dev[b2] /\ blockno[b1] = blockno[b2])
  /\ \A t1, t2 \in Threads :
       (Outstanding(t1) /\ Outstanding(t2) /\ a_dev[t1] = a_dev[t2]
          /\ a_blockno[t1] = a_blockno[t2])
         => l_b[t1] = l_b[t2]

\* Two threads have an acquire of the same key outstanding on one buffer.
CacheIdentityWitness ==
  \E t1, t2 \in Threads :
    /\ t1 # t2 /\ Outstanding(t1) /\ Outstanding(t2)
    /\ a_dev[t1] = a_dev[t2] /\ a_blockno[t1] = a_blockno[t2]
    /\ l_b[t1] = l_b[t2] /\ refcnt[l_b[t1]] >= 2

\* C2 as stated (no reclaim while referenced): while refcnt > 0 neither the
\* key nor the valid flag of a buffer changes.
KeyAndValidFrozenWhileReferenced ==
  [][\A b \in Bufs :
       refcnt[b] > 0 => /\ dev'[b] = dev[b]
                        /\ blockno'[b] = blockno[b]
                        /\ valid'[b] = valid[b]]_vars

\* C2 as amended: a step that gives a buffer a new key or clears its valid
\* flag (the eviction) finds it with refcnt = 0; while refcnt > 0 the key
\* does not change and valid is not cleared, its only change being the
\* 0 -> 1 of the disk read done by the owner of the buffer's sleep lock.
NoReclaimWhileReferenced ==
  [][\A b \in Bufs :
       refcnt[b] > 0 =>
         /\ dev'[b] = dev[b]
         /\ blockno'[b] = blockno[b]
         /\ valid'[b] >= valid[b]
         /\ valid'[b] # valid[b] =>
              \E t \in Threads : pc[t] = "disk_read" /\ l_b[t] = b
                                   /\ holdingsleep(b, t)]_vars

\* A buffer is kept by a pin alone, its sleep lock free, while another
\* thread has just evicted a different buffer.
NoReclaimWitness ==
  \E b \in Bufs, t \in Threads :
    /\ pins[b] > 0 /\ refcnt[b] = pins[b] /\ ~slk_locked[b]
    /\ pc[t] = "sleep" /\ path[t] = "evict" /\ l_b[t] # b

\* C3 (at most one loader): a buffer is read from disk at most once per
\* key it carries, reads in progress included; it is valid exactly when
\* that read is done; and every thread bread has returned to finds the one
\* read done.
AtMostOneLoader ==
  /\ \A b \in Bufs :
       /\ nread[b] + Cardinality({t \in Threads :
                                    pc[t] = "disk_read" /\ l_b[t] = b}) <= 1
       /\ (valid[b] = 1) <=> (nread[b] = 1)
  /\ \A t \in Threads :
       (pc[t] \in {"holding", "disk_write"}) => nread[l_b[t]] = 1

\* A thread that missed, and found the key on the re-check of the miss
\* path, holds the buffer, which was read once.
AtMostOneLoaderWitness ==
  \E t \in Threads :
    pc[t] = "holding" /\ path[t] = "recheck" /\ nread[l_b[t]] = 1

\* C4 (exhaustion only when fully pinned): bget panics with "no buffers"
\* only when every buffer of the pool has refcnt > 0.
ExhaustionOnlyWhenFullyPinned ==
  (panicked = "bget: no buffers") => \A b \in Bufs : refcnt[b] > 0

\* C5 (mutual exclusion): at most one thread is between the return of
\* bget for a buffer and the releasesleep of its brelse.
MutualExclusion ==
  \A b \in Bufs :
    Cardinality({t \in Threads : InUse(t) /\ l_b[t] = b}) <= 1

\* One thread uses a buffer while another sleeps on its lock.
MutualExclusionWitness ==
  \E t1, t2 \in Threads :
    /\ t1 # t2 /\ InUse(t1) /\ pc[t2] = "sleep" /\ l_b[t1] = l_b[t2]

\* The spinlock thread t is about to acquire, as <<kind, index>>.
\* <<"none", 0>> when its next step is no acquire.
WaitsFor(t) ==
  IF pc[t] = "miss" THEN << "g", 0 >>
  ELSE IF pc[t] \in {"miss_bucket", "brelse", "bpin", "bunpin"}
       THEN << "h", l_hash[t] >>
  ELSE IF pc[t] = "donor" THEN << "h", l_i[t] >>
  ELSE << "none", 0 >>

\* The thread that holds the lock t waits for; NoThread when it is free.
Blocker(t) ==
  IF t = NoThread THEN NoThread
  ELSE IF WaitsFor(t)[1] = "g" THEN lock
  ELSE IF WaitsFor(t)[1] = "h" THEN hash_lock[WaitsFor(t)[2]]
  ELSE NoThread

RECURSIVE BlockerChain(_, _)
BlockerChain(t, n) ==
  IF n = 0 THEN t ELSE Blocker(BlockerChain(t, n - 1))

\* C6 (deadlock freedom of the structural locks): no thread waits, through
\* a chain of lock owners, for a lock it holds itself; and the locks are
\* taken in order: a thread that waits for bcache.lock holds no lock, a
\* thread holds a bucket lock other than its target's only together with
\* bcache.lock and the target's lock, and at most one such lock.
DeadlockFree ==
  /\ \A t \in Threads : \A n \in 1 .. NTHREAD : BlockerChain(t, n) # t
  /\ \A t \in Threads :
       /\ pc[t] = "miss" => HeldLocks(t) = {}
       /\ pc[t] = "miss_bucket" => HeldLocks(t) = {GL}
       /\ HeldLocks(t) \ {GL} \subseteq {l_hash[t], l_i[t]}
       /\ (HeldLocks(t) \ {GL, l_hash[t]}) # {}
            => ({GL, l_hash[t]} \subseteq HeldLocks(t) /\ l_i[t] # l_hash[t])

\* A thread in the donor loop holds bcache.lock and its target bucket's
\* lock and waits for a donor bucket's lock that another thread holds.
DeadlockFreeWitness ==
  \E t, u \in Threads :
    /\ t # u /\ pc[t] = "donor" /\ hash_lock[l_i[t]] = u
    /\ HeldLocks(t) = {GL, l_hash[t]}

\* C8 (postcondition of bread): a thread bread has returned to has a
\* buffer with the key it asked for, valid, with refcnt >= 1, and owns the
\* buffer's sleep lock.
AcquirePostcondition ==
  \A t \in Threads :
    (pc[t] \in {"holding", "disk_write"}) =>
      /\ dev[l_b[t]] = a_dev[t]
      /\ blockno[l_b[t]] = a_blockno[t]
      /\ valid[l_b[t]] = 1
      /\ refcnt[l_b[t]] >= 1
      /\ holdingsleep(l_b[t], t)

\* Two threads hold buffers, one from the re-check of the miss path and
\* one from the fast-path hit or from the eviction.
AcquirePostconditionWitness ==
  \E t1, t2 \in Threads :
    /\ pc[t1] = "holding" /\ path[t1] = "recheck"
    /\ pc[t2] = "holding" /\ path[t2] \in {"hit", "evict"}

\* C9 (no structural lock across a blocking point): a thread that sleeps
\* on a buffer's lock or is inside virtio_disk_rw holds no spinlock.
NoSpinlockWhileBlocking ==
  \A t \in Threads :
    (pc[t] \in {"sleep", "disk_read", "disk_write"}) => HeldLocks(t) = {}

\* A thread that evicted sleeps on its buffer's lock while the other
\* thread is inside a bucket-lock critical section.
NoSpinlockWhileBlockingWitness ==
  \E t, u \in Threads :
    /\ t # u /\ pc[t] = "sleep" /\ path[t] = "evict"
    /\ HeldLocks(t) = {} /\ HeldLocks(u) # {}

\* The buffers of bucket i in list order, from the head (most recently
\* used) to the tail.
RECURSIVE OrderFrom(_, _, _)
OrderFrom(b, h, fuel) ==
  IF b = h \/ fuel = 0 THEN << >>
  ELSE << b >> \o OrderFrom(next[b], h, fuel - 1)

Order(i) == OrderFrom(next[HeadOf(i)], HeadOf(i), NBUF + 1)

\* The sequence q without the buffer b.
Without(q, b) == SelectSeq(q, LAMBDA x : x # b)

\* The part of C16 that holds as stated: the releasesleep of brelse frees
\* the sleep lock and changes nothing else of any buffer; the critical
\* section of brelse decrements refcnt of the buffer by exactly 1; when
\* the count reaches zero the buffer is the head of the list of bucket
\* hash_val(blockno), and when it stays > 0 no list changes; key and valid
\* flag of every buffer, and refcnt and sleep lock of every other buffer,
\* are as before.
ReleaseEffect(t) ==
  /\ (pc[t] = "holding" /\ pc'[t] = "brelse") =>
       /\ ~slk_locked'[l_b[t]]
       /\ \A c \in Bufs \ {l_b[t]} :
            slk_locked'[c] = slk_locked[c] /\ slk_pid'[c] = slk_pid[c]
       /\ refcnt' = refcnt /\ next' = next /\ prev' = prev
       /\ dev' = dev /\ blockno' = blockno /\ valid' = valid
  /\ (pc[t] = "brelse_body" /\ pc'[t] = "idle") =>
       LET b == l_b[t]
           h == hash_val(blockno[b])
       IN  /\ refcnt'[b] = refcnt[b] - 1
           /\ refcnt'[b] >= 0
           /\ refcnt'[b] = 0 => /\ next'[HeadOf(h)] = b
                                /\ prev'[b] = HeadOf(h)
           /\ refcnt'[b] > 0 => (next' = next /\ prev' = prev)
           /\ dev' = dev /\ blockno' = blockno /\ valid' = valid
           /\ slk_locked' = slk_locked /\ slk_pid' = slk_pid
           /\ \A c \in Bufs \ {b} : refcnt'[c] = refcnt[c]

\* C16 as stated (release effect and frame): the effect of brelse, with
\* every field of every other buffer, its list links included, unchanged.
ReleaseLeavesOtherBuffersUnchanged ==
  [][\A t \in Threads :
       /\ ReleaseEffect(t)
       /\ (pc[t] = "brelse_body" /\ pc'[t] = "idle") =>
            \A c \in Bufs \ {l_b[t]} :
              next'[c] = next[c] /\ prev'[c] = prev[c]]_vars

\* C16 as amended: the effect of brelse, with the links of other buffers
\* changed only as the move needs: when the count reaches zero the list of
\* the buffer's bucket is the buffer followed by the other buffers of the
\* bucket in their former order, and the list of every other bucket is as
\* before.
ReleaseKeepsOrderOfOtherBuffers ==
  [][\A t \in Threads :
       /\ ReleaseEffect(t)
       /\ (pc[t] = "brelse_body" /\ pc'[t] = "idle") =>
            \A b \in {l_b[t]} : \A h \in {hash_val(blockno[b])} :
              /\ refcnt'[b] = 0 =>
                   Order(h)' = << b >> \o Without(Order(h), b)
              /\ refcnt'[b] > 0 => Order(h)' = Order(h)
              /\ \A i \in Buckets \ {h} : Order(i)' = Order(i)]_vars

\* A thread is in the critical section of brelse on a buffer with refcnt 1
\* that is not the head of its bucket's list: it has freed the sleep lock,
\* and the move to the head will change the links of the buffers in front
\* of it.
ReleaseWitness ==
  \E t \in Threads :
    /\ pc[t] = "brelse_body" /\ refcnt[l_b[t]] = 1
    /\ ~slk_locked[l_b[t]]
    /\ next[HeadOf(l_hash[t])] # l_b[t]
    /\ Len(Order(l_hash[t])) >= 2

\* C14 (fatal-path detection): a call of brelse or bwrite by a thread that
\* does not own the sleep lock of the buffer it passes ends in panic, with
\* the message of the function called, and changes nothing: refcnt, the
\* bucket lists, every sleep lock and every spinlock, key and valid flag
\* are as before, and no disk write is started.
FatalPathDetection ==
  [][\A t \in Threads :
       (/\ pc[t] \in {"idle", "holding"}
        /\ pc'[t] \in {"panic", "brelse", "disk_write"}
        /\ l_b'[t] \in Bufs
        /\ ~(slk_locked[l_b'[t]] /\ slk_pid[l_b'[t]] = t))
       => /\ pc'[t] = "panic"
          /\ panicked' \in {"brelse", "bwrite"}
          /\ refcnt' = refcnt /\ next' = next /\ prev' = prev
          /\ slk_locked' = slk_locked /\ slk_pid' = slk_pid
          /\ lock' = lock /\ hash_lock' = hash_lock
          /\ dev' = dev /\ blockno' = blockno /\ valid' = valid
          /\ \A u \in Threads :
               pc'[u] = "disk_write" => pc[u] = "disk_write"]_vars

\* brelse was called on a buffer that another thread holds locked, and
\* the kernel has panicked; the buffer is still locked and referenced.
FatalPathWitness ==
  \E t, u \in Threads :
    /\ t # u /\ pc[t] = "panic" /\ panicked = "brelse"
    /\ l_b[t] \in Bufs /\ l_b[u] = l_b[t] /\ pc[u] = "holding"
    /\ slk_locked[l_b[t]] /\ slk_pid[l_b[t]] = u
    /\ refcnt[l_b[t]] >= 1

\* The number of buffers linked in the lists of buckets 0 .. i - 1.
RECURSIVE Linked(_)
Linked(i) == IF i = 0 THEN 0 ELSE Len(Order(i - 1)) + Linked(i - 1)

\* The buckets in whose list buffer b is linked.
BucketsOf(b) ==
  {i \in Buckets : \E k \in 1 .. Len(Order(i)) : Order(i)[k] = b}

\* C17 (buckets partition the pool): in every reachable state, the states
\* in which no thread is inside a bucket-lock critical section among
\* them, next and prev are inverse to each other, every list leads back to
\* its head, every buffer is linked in the list of exactly one bucket and
\* the lists hold NBUF buffers together; and the eviction takes its
\* buffer out of the donor bucket's list and puts it at the head of the
\* target bucket's, every other buffer staying where it was.
BucketsPartitionPool ==
  /\ [](/\ \A x \in Nodes : prev[next[x]] = x /\ next[prev[x]] = x
        /\ \A i \in Buckets : Len(Order(i)) <= NBUF
        /\ \A b \in Bufs : Cardinality(BucketsOf(b)) = 1
        /\ Linked(NUM_BUCKET) = NBUF)
  /\ [][\A t \in Threads :
          (pc[t] = "donor_scan" /\ pc'[t] = "sleep") =>
            \A b \in {l_b'[t]} : \A h \in {l_hash[t]} : \A i \in {l_i[t]} :
              /\ i # h /\ BucketsOf(b) = {i}
              /\ Order(i)' = Without(Order(i), b)
              /\ Order(h)' = << b >> \o Order(h)
              /\ \A j \in Buckets \ {i, h} : Order(j)' = Order(j)]_vars

\* A thread has just evicted a buffer out of the bucket binit put it in:
\* the buffer is now in the target bucket, which holds two buffers.
BucketsPartitionPoolWitness ==
  \E t \in Threads :
    /\ pc[t] = "sleep" /\ path[t] = "evict"
    /\ BucketsOf(l_b[t]) = {l_hash[t]}
    /\ l_hash[t] # l_b[t] % NUM_BUCKET
    /\ Len(Order(l_hash[t])) = 2

\* b->lru_timestamp = ticks; the field is not part of the state, and its
\* writes are the steps that carry them: the two hits of bget, on the
\* buffer found, and the critical section of bpin.
WritesTimestamp(t, b) ==
  \/ pc[t] \in {"scan", "rescan"} /\ pc'[t] = "sleep" /\ l_b'[t] = b
  \/ pc[t] = "bpin_body" /\ pc'[t] = "holding" /\ l_b[t] = b

\* C18 (bucket-lock discipline): every buffer with refcnt > 0 is linked in
\* bucket hash_val(blockno); brelse, bpin and bunpin, from the moment they
\* pick the lock, aim at the bucket that contains their buffer, and hold
\* its lock in their critical section; and every step of bget, brelse,
\* bpin or bunpin that writes the links, the refcnt or the timestamp of a
\* buffer is taken by a thread that holds the lock of the bucket the
\* buffer is linked in before the step.
BucketLockDiscipline ==
  /\ [](/\ \A b \in Bufs :
             refcnt[b] > 0 => BucketsOf(b) = {hash_val(blockno[b])}
        /\ \A t \in Threads :
             /\ pc[t] \in {"brelse", "brelse_body", "bpin", "bpin_body",
                            "bunpin", "bunpin_body"}
                  => /\ l_hash[t] = hash_val(blockno[l_b[t]])
                     /\ BucketsOf(l_b[t]) = {l_hash[t]}
             /\ pc[t] \in {"brelse_body", "bpin_body", "bunpin_body"}
                  => hash_lock[l_hash[t]] = t)
  /\ [][\A b \in Bufs :
          (\/ next'[b] # next[b] \/ prev'[b] # prev[b]
           \/ refcnt'[b] # refcnt[b]
           \/ \E t \in Threads : WritesTimestamp(t, b))
          => \E t \in Threads : \E i \in BucketsOf(b) :
               hash_lock[i] = t /\ pc'[t] # pc[t]]_vars

\* A thread is in the critical section of bpin, with the lock of the
\* bucket its buffer is linked in, a bucket binit did not put the buffer
\* in, while the other thread is in a critical section of another bucket.
BucketLockDisciplineWitness ==
  \E t, u \in Threads :
    /\ t # u /\ pc[t] = "bpin_body"
    /\ BucketsOf(l_b[t]) = {l_hash[t]} /\ hash_lock[l_hash[t]] = t
    /\ l_hash[t] # l_b[t] % NUM_BUCKET
    /\ \E i \in Buckets \ {l_hash[t]} : hash_lock[i] = u

\* C20 (an evictable buffer is unlocked): a buffer with refcnt = 0 has its
\* sleep lock free, with no owner recorded, and no thread sleeps or is
\* about to sleep on it; the owner of a sleep lock is a thread that bget
\* handed the buffer to and that has not called brelse yet, so a thread
\* inside brelse owns no sleep lock; hence the buffer the donor scan
\* takes is unlocked, and stays so through the eviction step.
EvictableIsUnlocked ==
  /\ [](/\ \A b \in Bufs :
             /\ refcnt[b] = 0 =>
                  /\ ~slk_locked[b] /\ slk_pid[b] = NoThread
                  /\ \A t \in Threads : ~(pc[t] = "sleep" /\ l_b[t] = b)
             /\ slk_locked[b] =>
                  \E t \in Threads :
                    /\ slk_pid[b] = t /\ l_b[t] = b /\ InUse(t)
        /\ \A t \in Threads :
             pc[t] \in {"brelse", "brelse_body"}
               => \A b \in Bufs : ~holdingsleep(b, t))
  /\ [][\A t \in Threads :
          (pc[t] = "donor_scan" /\ pc'[t] = "sleep") =>
            /\ refcnt[l_b'[t]] = 0 /\ refcnt'[l_b'[t]] = 1
            /\ ~slk_locked[l_b'[t]] /\ ~slk_locked'[l_b'[t]]]_vars

\* The donor scan is about to take a buffer that was held and released
\* before (it is still valid): refcnt is 0 and the sleep lock is free,
\* while the other thread is inside brelse on another buffer.
EvictableIsUnlockedWitness ==
  \E t, u \in Threads :
    /\ t # u /\ pc[t] = "donor_scan"
    /\ ScanFree(l_i[t]) \in Bufs
    /\ valid[ScanFree(l_i[t])] = 1 /\ refcnt[ScanFree(l_i[t])] = 0
    /\ ~slk_locked[ScanFree(l_i[t])]
    /\ pc[u] \in {"brelse", "brelse_body"}

\* ------------------------------------------------------------------------
\* Properties of the LRU scenario
\* ------------------------------------------------------------------------

\* The buffers linked in bucket i.
RECURSIVE MembersFrom(_, _)
MembersFrom(b, h) ==
  IF b = h THEN {} ELSE {b} \cup MembersFrom(next[b], h)

Members(i) == MembersFrom(next[HeadOf(i)], HeadOf(i))

\* In the scenario the buffers are released in the order of hist, so the
\* place of a buffer's block in hist is the time of its last release;
\* 0 for a buffer that was never used.
RelRank(c) ==
  IF dev[c] = 1 /\ \E j \in 1 .. Len(hist) : hist[j] = blockno[c]
  THEN CHOOSE j \in 1 .. Len(hist) : hist[j] = blockno[c]
  ELSE 0

Quiescent(p) == \A t \in Threads : k_r[t] # p

\* C10 (reference-counted reclamation): a page that callers hold
\* references to is off the free list with a count that covers them; the
\* page is pushed at most once between two allocations, by a kfree that
\* found the count at zero after the last reference was given up; and with
\* no call at work the count equals the references held, the page being on
\* the free list exactly when there are none.
RefCountedReclamation ==
  \A p \in Managed :
    /\ krefs[p] > 0 => (p \notin FreePages /\ ref_counter[p] >= krefs[p])
    /\ npush[p] <= 1
    /\ (npush[p] = 1) <=> (p \in FreePages)
    /\ \A t \in Threads :
         (kpc[t] \in {"kfree_list", "kfree_push"} /\ k_r[t] = p)
           => (krefs[p] = 0 /\ ref_counter[p] = 0)
    /\ Quiescent(p) => /\ ref_counter[p] = krefs[p]
                       /\ (krefs[p] = 0) <=> (p \in FreePages)

\* allocate; increase_reference; free: one kfree has completed on a page
\* that is still allocated, with one reference left.
RefCountedReclamationWitness ==
  \E p \in Managed :
    /\ nfree[p] = 1 /\ krefs[p] = 1 /\ ref_counter[p] = 1
    /\ Quiescent(p) /\ p \notin FreePages

\* C11 (allocator exhaustion is recoverable): a kalloc that finds the free
\* list empty, which is the case once every seeded page has been handed out
\* and none pushed back, returns 0 and leaves the free list, the page
\* memory and every reference count as they were, every managed page being
\* held or worked on by a call; a kalloc that finds a page on the list
\* takes exactly that page off it; and the push of kfree, done when the
\* count reached zero, leaves the page on the free list, so that the list
\* is no longer empty.
ExhaustionRecoverable ==
  [][\A t \in Threads :
       /\ (kpc[t] = "kalloc_pop" /\ kpc'[t] # "kalloc_pop") =>
            IF FreePages = {}
            THEN /\ kpc'[t] = "idle" /\ k_r'[t] = NoPage /\ kfailed'[t]
                 /\ freelist' = freelist /\ mem' = mem
                 /\ ref_counter' = ref_counter /\ krefs' = krefs
                 /\ \A p \in Managed :
                      krefs[p] > 0 \/ \E u \in Threads : k_r[u] = p
            ELSE /\ kpc'[t] = "kalloc_fill" /\ kfailed'[t] = kfailed[t]
                 /\ k_r'[t] \in FreePages
                 /\ FreePages' = FreePages \ {k_r'[t]}
       /\ (kpc[t] = "kfree_push" /\ kpc'[t] # "kfree_push") =>
            /\ ref_counter'[k_r[t]] = 0
            /\ k_r[t] \in FreePages'
            /\ freelist' # NoPage]_vars

\* A thread whose last kalloc returned 0 has called kalloc again and got a
\* page, which a kfree had pushed in between.
ExhaustionRecoverableWitness ==
  \E t \in Threads :
    /\ kfailed[t] /\ kpc[t] = "kalloc_fill"
    /\ k_r[t] \in Managed

\* Thread t is inside kalloc with page p popped and its count not yet set,
\* or inside kfree with the count of p decremented and p not yet pushed.
InFlight(t, p) ==
  /\ k_r[t] = p
  /\ kpc[t] \in {"kalloc_fill", "kalloc_ref", "kalloc_set", "kfree_list",
                 "kfree_push"}

\* C12 as stated (free pages are on the free list): in every reachable
\* state every seeded page whose reference count is 0 is on the free list.
ZeroCountOnFreeList ==
  \A p \in Managed : ref_counter[p] = 0 => p \in FreePages

\* C12 as amended: a seeded page whose reference count is 0 is on the free
\* list, or is the page of a kalloc that has popped it and not yet set its
\* count to 1, or of a kfree that has decremented its count and not yet
\* pushed it.  With no call at work on it, a page with count 0 is on the
\* free list.
ZeroCountOnFreeListOrInFlight ==
  \A p \in Managed :
    ref_counter[p] = 0 =>
      \/ p \in FreePages
      \/ \E t \in Threads : InFlight(t, p)

\* A freed page is back on the free list with count 0 and no call at work
\* on it, while another page, popped by a kalloc that has not set its
\* count yet, has count 0 off the list.
ZeroCountWitness ==
  \E p, q \in Managed :
    /\ p # q
    /\ ref_counter[p] = 0 /\ p \in FreePages /\ Quiescent(p)
    /\ nfree[p] >= 1
    /\ ref_counter[q] = 0 /\ q \notin FreePages
    /\ \E t \in Threads : k_r[t] = q /\ kpc[t] = "kalloc_ref"

\* C13 (allocated pages are off the free list): with callers that free or
\* share only pages they hold a reference to, no page whose reference
\* count is > 0 is on the free list, and no page a caller holds a
\* reference to is on it.
CountedPageOffFreeList ==
  \A p \in Managed :
    /\ ref_counter[p] > 0 => p \notin FreePages
    /\ krefs[p] > 0 => p \notin FreePages

\* A page shared by two references is off the free list, on which a page
\* that was allocated and freed sits.
CountedPageOffFreeListWitness ==
  \E p, q \in Managed :
    /\ ref_counter[p] = 2 /\ krefs[p] = 2 /\ p \notin FreePages
    /\ q \in FreePages /\ nfree[q] >= 1

\* Thread t is at a statement of kfree, kalloc or increase_ref_counter that
\* reads or writes kmem.ref_counter[p], or between two of them.
AtCount(t, p) ==
  /\ k_r[t] = p
  /\ kpc[t] \in {"kfree_dec", "kfree_list", "kfree_push", "kfree_unlock",
                 "kalloc_set", "kinc_body"}

\* C15 (per-page lock discipline): a thread that reads or writes the
\* reference count of a page holds that page's ref_lock, so at most one
\* thread is at work on one page's count; and every change of a page's
\* count is a step of the thread that holds the page's ref_lock.
PerPageLockDiscipline ==
  /\ [](\A p \in Pages :
          /\ \A t \in Threads : AtCount(t, p) => ref_lock[p] = t
          /\ Cardinality({t \in Threads : AtCount(t, p)}) <= 1)
  /\ [][\A p \in Pages :
          ref_counter'[p] # ref_counter[p] =>
            \E t \in Threads :
              /\ AtCount(t, p) /\ ref_lock[p] = t
              /\ kpc'[t] # kpc[t]]_vars

\* One thread pushes a page in kfree, with the page's ref_lock and
\* kmem.lock held, while another increments the count of a second page
\* under that page's own ref_lock.
PerPageLockDisciplineWitness ==
  \E t, u \in Threads : \E p, q \in Managed :
    /\ t # u /\ p # q
    /\ kpc[t] = "kfree_push" /\ k_r[t] = p /\ ref_lock[p] = t
    /\ kmem_lock = t
    /\ kpc[u] = "kinc_body" /\ k_r[u] = q /\ ref_lock[q] = u

\* kmem.freelist as the sequence of its pages, from the head on.
RECURSIVE FreeSeqFrom(_, _)
FreeSeqFrom(r, fuel) ==
  IF r \notin Managed \/ fuel = 0 THEN << >>
  ELSE << r >> \o FreeSeqFrom(mem[r], fuel - 1)

FreeSeq == FreeSeqFrom(freelist, NPAGE + 1)

\* Thread t is inside kalloc with page p taken off the free list.
Allocating(t, p) ==
  k_r[t] = p /\ kpc[t] \in {"kalloc_fill", "kalloc_ref", "kalloc_set"}

\* C19 (no double allocation): the free list holds no page twice and ends;
\* a page that kalloc has popped is not on the free list, is held by no
\* caller and is the page of no other kalloc; and the page a kalloc pops
\* was pushed by a kfree (or by the seeding) since it was last popped, its
\* count being zero and no caller holding it.
NoDoubleAllocation ==
  /\ [](/\ Len(FreeSeq) <= NMPAGE
        /\ \A j, k \in 1 .. Len(FreeSeq) : j # k => FreeSeq[j] # FreeSeq[k]
        /\ \A t \in Threads : \A p \in Managed :
             Allocating(t, p) =>
               /\ p \notin FreePages
               /\ krefs[p] = 0
               /\ \A u \in Threads \ {t} : ~Allocating(u, p))
  /\ [][\A t \in Threads :
          (kpc[t] = "kalloc_pop" /\ kpc'[t] = "kalloc_fill") =>
            \A p \in {k_r'[t]} :
              /\ p = freelist /\ npush[p] = 1
              /\ ref_counter[p] = 0 /\ krefs[p] = 0
              /\ \A u \in Threads : ~Allocating(u, p)]_vars

\* Two kalloc calls run together, each with a page of its own; one is by
\* a thread whose last kalloc returned 0, so its page was allocated and
\* freed before.
NoDoubleAllocationWitness ==
  \E t, u \in Threads : \E p, q \in Managed :
    /\ t # u /\ p # q
    /\ Allocating(t, p) /\ Allocating(u, q)
    /\ mem[p] = Junk5 /\ kfailed[t]

=============================================================================
